---------------------------- MODULE Spec2Model ----------------------------
(***************************************************************************)
(* Personal Data Analyst: the tool surface of src/data_analyst/tools.py    *)
(* and src/data_analyst/bigquery_tools.py as a state machine over the      *)
(* session state (tool_context.state), the plotting library's open         *)
(* figures, the process-wide standard output stream and the lazy warehouse *)
(* client.  Python strings that the code inspects character by character   *)
(* (SQL text, file names, state keys) are sequences of one-character       *)
(* strings.                                                                *)
(***************************************************************************)
EXTENDS Integers, Sequences, FiniteSets, TLC

VARIABLES
    PROJECT_ID,     \* bigquery_tools.PROJECT_ID: "None" or the project id
    dataDirExists,  \* whether DATA_DIR exists on disk
    bq_client,      \* bigquery_tools._bq_client: "None" or "client"
    state,          \* tool_context.state: function from the present keys to values
    fignums,        \* plt.get_fignums(): the numbers of the open figures
    sys_stdout,     \* sys.stdout: the stream currently installed
    result,         \* the mapping the last tool call returned, or the exception that left it
    call            \* the last tool call: its name, its arguments and what it did

vars == <<PROJECT_ID, dataDirExists, bq_client, state, fignums, sys_stdout, result, call>>

---------------------------------------------------------------------------
(* Bounds of the model *)

MaxRows == 3        \* most rows the warehouse produces for one query
MaxFigs == 1        \* most figures open at once, and most one snippet opens
MaxPieces == 4      \* most pieces a generated SQL statement is made of

(* bigquery_tools.MAX_RESULTS, read from BIGQUERY_MAX_RESULTS *)
MAX_RESULTS == 2

---------------------------------------------------------------------------
(* Text: Python str as a sequence of characters *)

Lit ==
       ("a.csv"            :> <<"a", ".", "c", "s", "v">>)
    @@ ("notes.txt"        :> <<"n", "o", "t", "e", "s", ".", "t", "x", "t">>)
    @@ ("bad.csv"          :> <<"b", "a", "d", ".", "c", "s", "v">>)
    @@ ("nope.csv"         :> <<"n", "o", "p", "e", ".", "c", "s", "v">>)
    @@ ("df.csv"           :> <<"d", "f", ".", "c", "s", "v">>)
    @@ ("dataset_df_csv"   :> <<"d", "a", "t", "a", "s", "e", "t", "_", "d", "f", "_", "c", "s", "v">>)
    @@ ("dataset_"         :> <<"d", "a", "t", "a", "s", "e", "t", "_">>)
    @@ ("dataset_a_csv"    :> <<"d", "a", "t", "a", "s", "e", "t", "_", "a", "_", "c", "s", "v">>)
    @@ ("a"                :> <<"a">>)
    @@ ("df"               :> <<"d", "f">>)
    @@ ("_csv"             :> <<"_", "c", "s", "v">>)
    @@ ("_xlsx"            :> <<"_", "x", "l", "s", "x">>)
    @@ (".csv"             :> <<".", "c", "s", "v">>)
    @@ (".xlsx"            :> <<".", "x", "l", "s", "x">>)
    @@ (".xls"             :> <<".", "x", "l", "s">>)
    @@ ("schema_"          :> <<"s", "c", "h", "e", "m", "a", "_">>)
    @@ ("ds1"              :> <<"d", "s", "1">>)
    @@ ("t1"               :> <<"t", "1">>)
    @@ ("schema_ds1_t1"    :> <<"s", "c", "h", "e", "m", "a", "_", "d", "s", "1", "_", "t", "1">>)
    @@ ("proj"             :> <<"p", "r", "o", "j">>)
    @@ ("analysis_output_" :> <<"a", "n", "a", "l", "y", "s", "i", "s", "_", "o", "u", "t", "p", "u", "t", "_">>)
    @@ (".png"             :> <<".", "p", "n", "g">>)
    @@ ("None"             :> <<"N", "o", "n", "e">>)
    @@ ("current_dataset"          :> <<"c", "u", "r", "r", "e", "n", "t", "_", "d", "a", "t", "a", "s", "e", "t">>)
    @@ ("current_dataset_columns"  :> <<"c", "u", "r", "r", "e", "n", "t", "_", "d", "a", "t", "a", "s", "e", "t", "_", "c", "o", "l", "u", "m", "n", "s">>)
    @@ ("current_dataset_name"     :> <<"c", "u", "r", "r", "e", "n", "t", "_", "d", "a", "t", "a", "s", "e", "t", "_", "n", "a", "m", "e">>)
    @@ ("available_files"          :> <<"a", "v", "a", "i", "l", "a", "b", "l", "e", "_", "f", "i", "l", "e", "s">>)
    @@ ("available_datasets"       :> <<"a", "v", "a", "i", "l", "a", "b", "l", "e", "_", "d", "a", "t", "a", "s", "e", "t", "s">>)
    @@ ("available_tables"         :> <<"a", "v", "a", "i", "l", "a", "b", "l", "e", "_", "t", "a", "b", "l", "e", "s">>)
    @@ ("current_table_schema"     :> <<"c", "u", "r", "r", "e", "n", "t", "_", "t", "a", "b", "l", "e", "_", "s", "c", "h", "e", "m", "a">>)
    @@ ("last_query"               :> <<"l", "a", "s", "t", "_", "q", "u", "e", "r", "y">>)
    @@ ("last_query_result"        :> <<"l", "a", "s", "t", "_", "q", "u", "e", "r", "y", "_", "r", "e", "s", "u", "l", "t">>)
    @@ ("last_query_columns"       :> <<"l", "a", "s", "t", "_", "q", "u", "e", "r", "y", "_", "c", "o", "l", "u", "m", "n", "s">>)
    @@ ("bigquery_query_result"    :> <<"b", "i", "g", "q", "u", "e", "r", "y", "_", "q", "u", "e", "r", "y", "_", "r", "e", "s", "u", "l", "t">>)

(* The string whose characters are cs *)
Str(cs) == CHOOSE s \in DOMAIN Lit : Lit[s] = cs

Lower == <<"a", "b", "c", "d", "e", "f", "g", "h", "i", "j", "k", "l", "m",
           "n", "o", "p", "q", "r", "s", "t", "u", "v", "w", "x", "y", "z">>
Upper == <<"A", "B", "C", "D", "E", "F", "G", "H", "I", "J", "K", "L", "M",
           "N", "O", "P", "Q", "R", "S", "T", "U", "V", "W", "X", "Y", "Z">>
Digits == <<"0", "1", "2", "3", "4", "5", "6", "7", "8", "9">>

Range(s) == {s[i] : i \in DOMAIN s}

ToUpper == [c \in Range(Lower) |-> Upper[CHOOSE i \in DOMAIN Lower : Lower[i] = c]]
ToLower == [c \in Range(Upper) |-> Lower[CHOOSE i \in DOMAIN Upper : Upper[i] = c]]

(* str.upper() and str.lower() on one ASCII character *)
UpperChar(c) == IF c \in DOMAIN ToUpper THEN ToUpper[c] ELSE c
LowerChar(c) == IF c \in DOMAIN ToLower THEN ToLower[c] ELSE c

StrUpper(s) == [i \in DOMAIN s |-> UpperChar(s[i])]
StrLower(s) == [i \in DOMAIN s |-> LowerChar(s[i])]

IsSpace(c) == c \in {" ", "\t", "\n"}

(* str.strip(): drop leading and trailing whitespace *)
StrStrip(s) ==
    LET keep == {i \in DOMAIN s : ~IsSpace(s[i])}
    IN  IF keep = {} THEN <<>>
        ELSE LET lo == CHOOSE i \in keep : \A j \in keep : i <= j
                 hi == CHOOSE i \in keep : \A j \in keep : i >= j
             IN  SubSeq(s, lo, hi)

(* str.startswith(prefix) *)
StartsWith(s, prefix) ==
    /\ Len(prefix) <= Len(s)
    /\ SubSeq(s, 1, Len(prefix)) = prefix

(* whether s holds sub at position i *)
OccursAt(s, sub, i) ==
    /\ i >= 1
    /\ i + Len(sub) - 1 <= Len(s)
    /\ \A j \in 1..Len(sub) : s[i + j - 1] = sub[j]

(* str.replace(old, new): left to right, non-overlapping; old is not empty *)
RECURSIVE StrReplaceFrom(_, _, _, _)
StrReplaceFrom(s, old, new, i) ==
    IF i > Len(s) THEN <<>>
    ELSE IF OccursAt(s, old, i)
         THEN new \o StrReplaceFrom(s, old, new, i + Len(old))
         ELSE <<s[i]>> \o StrReplaceFrom(s, old, new, i + 1)

StrReplace(s, old, new) == StrReplaceFrom(s, old, new, 1)

(* Path.suffix of a file name: from its last dot on, "" without one *)
Suffix(name) ==
    LET dots == {i \in DOMAIN name : name[i] = "." /\ i > 1}
    IN  IF dots = {} THEN <<>>
        ELSE SubSeq(name, CHOOSE i \in dots : \A j \in dots : i >= j, Len(name))

(* str(n) for an integer n *)
RECURSIVE IntToStr(_)
IntToStr(n) ==
    IF n < 0 THEN <<"-">> \o IntToStr(0 - n)
    ELSE IF n < 10 THEN <<Digits[n + 1]>>
    ELSE IntToStr(n \div 10) \o <<Digits[(n % 10) + 1]>>

(* the regular expression's \w on ASCII *)
WordChars == Range(Lower) \cup Range(Upper) \cup Range(Digits) \cup {"_"}
IsWordChar(c) == c \in WordChars

---------------------------------------------------------------------------
(* Values held in tool_context.state *)

VStr(cs)     == [kind |-> "str", val |-> cs]          \* a Python str
VRecords(rs) == [kind |-> "records", val |-> rs]      \* df.to_dict(orient="records")
VList(xs)    == [kind |-> "list", val |-> xs]         \* a list of names
VDict(xs)    == [kind |-> "dict", val |-> xs]         \* a mapping

(* isinstance(value, list) *)
IsList(v) == v.kind \in {"records", "list"}

(* state[key] = value *)
Put(s, key, value) == [k \in DOMAIN s \cup {key} |-> IF k = key THEN value ELSE s[k]]

---------------------------------------------------------------------------
(* The data directory.  Every dataset has the one numeric column n, and a  *)
(* row is the value it holds in that column.                               *)

FilesOnDisk == {"a.csv", "notes.txt", "bad.csv", "df.csv"}
FileRows == ("a.csv" :> <<3, 1, 2>>) @@ ("df.csv" :> <<7>>)
Unreadable == {"bad.csv"}       \* pd.read_csv raises on it
(* the file names the session hands to load_data *)
Filenames == {"a.csv", "notes.txt", "bad.csv", "nope.csv"}
Columns == <<"n">>

(* The warehouse: project proj holds dataset ds1 with table t1 *)
DatasetIds == {"ds1"}
TableIds == {"t1"}
WarehouseDatasets == <<"ds1">>
WarehouseTables == <<"t1">>
SchemaColumns == <<"id", "created_at">>
WarehouseRows(n) == [i \in 1..n |-> 10 + i]

---------------------------------------------------------------------------
(* What a tool call hands back, and what it did *)

Returned(status, message) ==
    [status |-> status, message |-> message, keyword |-> <<>>, hint |-> FALSE,
     output |-> <<>>, generated_files |-> <<>>, row_count |-> 0, truncated |-> FALSE,
     dataset_name |-> <<>>, min |-> 0, max |-> 0]

(* the call did not return: the exception exc left it *)
Raised(exc) == Returned("raised", exc)

NoSnippet == [prints |-> <<>>, newfigs |-> 0, closes |-> FALSE, raises |-> "none"]

NoCall ==
    [op |-> "none", filename |-> "", code |-> NoSnippet, sql |-> <<>>, dataset_id |-> "",
     table_id |-> "", limit |-> 0, produced |-> 0, queried |-> FALSE, ran |-> FALSE,
     local_vars |-> <<>>, figs |-> {}, saved |-> <<>>]

Call(op) == [NoCall EXCEPT !.op = op]

---------------------------------------------------------------------------
(* bigquery_tools.py *)

KwSelect == <<"S", "E", "L", "E", "C", "T">>
KwWith == <<"W", "I", "T", "H">>

dangerous_keywords ==
    << <<"D", "E", "L", "E", "T", "E">>,
       <<"D", "R", "O", "P">>,
       <<"I", "N", "S", "E", "R", "T">>,
       <<"U", "P", "D", "A", "T", "E">>,
       <<"T", "R", "U", "N", "C", "A", "T", "E">>,
       <<"A", "L", "T", "E", "R">>,
       <<"C", "R", "E", "A", "T", "E">> >>

(* a search for the keyword's letters that ignores the word boundaries *)
ReSearchSubstring(s, keyword) == \E i \in 1..Len(s) : OccursAt(s, keyword, i)

(* re.search(rf'\b{keyword}\b', s): the keyword starts and ends with a word *)
(* character, so \b asks for a non-word character or the string's edge on  *)
(* each side                                                               *)
ReSearchWord(s, keyword) ==
    \E i \in 1..Len(s) :
        /\ OccursAt(s, keyword, i)
        /\ (i = 1 \/ ~IsWordChar(s[i - 1]))
        /\ (i + Len(keyword) - 1 = Len(s) \/ ~IsWordChar(s[i + Len(keyword)]))

(* a loop that stops one keyword short of the end of the list *)
FirstForbiddenShort(sql_upper) ==
    LET hits == {k \in 1..(Len(dangerous_keywords) - 1) :
                    ReSearchWord(sql_upper, dangerous_keywords[k])}
    IN  IF hits = {} THEN 0 ELSE CHOOSE k \in hits : \A j \in hits : k <= j

(* the for loop over dangerous_keywords: the index of the first keyword    *)
(* found, 0 when none is                                                   *)
FirstForbidden(sql_upper) ==
    LET hits == {k \in DOMAIN dangerous_keywords :
                    ReSearchWord(sql_upper, dangerous_keywords[k])}
    IN  IF hits = {} THEN 0 ELSE CHOOSE k \in hits : \A j \in hits : k <= j

(* sql.strip().upper() *)
SqlUpper(sql) == StrUpper(StrStrip(sql))

(* a check that looks for SELECT or WITH anywhere in the statement *)
NotSelectAnywhere(sql_upper) ==
    ~ReSearchSubstring(sql_upper, KwSelect) /\ ~ReSearchSubstring(sql_upper, KwWith)

(* not sql_upper.startswith("SELECT") and not sql_upper.startswith("WITH") *)
NotSelect(sql_upper) ==
    ~StartsWith(sql_upper, KwSelect) /\ ~StartsWith(sql_upper, KwWith)

MsgNoProject == "GOOGLE_CLOUD_PROJECT environment variable not set"
MsgOnlySelect ==
    "Only SELECT queries are allowed for safety. Use SELECT or WITH statements."
MsgForbidden == "Query contains forbidden keyword: {keyword}. Only read operations allowed."

(* the checks of run_bigquery_sql that come before the try block: the      *)
(* error mapping returned, or status "ok" when the statement passes        *)
SqlRefusal(sql) ==
    LET sql_upper == SqlUpper(sql)
        k == FirstForbidden(sql_upper)
    IN  IF PROJECT_ID = "None" THEN Returned("error", MsgNoProject)
        ELSE IF NotSelect(sql_upper) THEN Returned("error", MsgOnlySelect)
        ELSE IF k # 0
             THEN [Returned("error", MsgForbidden) EXCEPT !.keyword = dangerous_keywords[k]]
             ELSE Returned("ok", "")

Min(a, b) == IF a <= b THEN a ELSE b

(* df.head(n) for n >= 0 *)
DfHead(rows, n) == SubSeq(rows, 1, Min(n, Len(rows)))

(* if len(df) > MAX_RESULTS: df = df.head(MAX_RESULTS) *)
LimitResults(rows) == IF Len(rows) > MAX_RESULTS THEN DfHead(rows, MAX_RESULTS) ELSE rows

(* a truncation flag that also fires on exactly MAX_RESULTS rows *)
TruncatedAtLimit(rows) == Len(rows) >= MAX_RESULTS

(* truncated = len(df) > MAX_RESULTS *)
Truncated(rows) == Len(rows) > MAX_RESULTS

(* the four assignments to tool_context.state after a query *)
StoreQuery(s, sql, rows) ==
    Put(Put(Put(Put(s, "last_query", VStr(sql)),
                "last_query_result", VRecords(rows)),
            "last_query_columns", VList(Columns)),
        "bigquery_query_result", VRecords(rows))

(* run_bigquery_sql(sql), entered directly (op run_bigquery_sql) or from   *)
(* preview_table; c is the call record so far                              *)
RunSql(c, sql) ==
    LET refusal == SqlRefusal(sql) IN
    /\ IF refusal.status = "error"
       THEN /\ result' = refusal
            /\ call' = [c EXCEPT !.sql = sql]
            /\ UNCHANGED <<bq_client, state>>
       ELSE \/ \* bigquery.Client(...) raises in _get_bq_client
               /\ bq_client = "None"
               /\ result' = Returned("error", "client error")
               /\ call' = [c EXCEPT !.sql = sql]
               /\ UNCHANGED <<bq_client, state>>
            \/ \* client.query(...) or query_job.result() raises
               /\ bq_client' = "client"
               /\ result' = Returned("error", "warehouse error")
               /\ call' = [c EXCEPT !.sql = sql, !.queried = TRUE]
               /\ UNCHANGED state
            \/ \* the warehouse produces n rows
               \E n \in 0..MaxRows :
                   LET df == LimitResults(WarehouseRows(n)) IN
                   /\ bq_client' = "client"
                   /\ state' = StoreQuery(state, sql, df)
                   /\ result' = [Returned("success", "") EXCEPT
                                    !.row_count = Len(df),
                                    !.truncated = Truncated(WarehouseRows(n))]
                   /\ call' = [c EXCEPT !.sql = sql, !.queried = TRUE, !.produced = n]
    /\ UNCHANGED <<PROJECT_ID, dataDirExists, fignums, sys_stdout>>

run_bigquery_sql(sql) == RunSql(Call("run_bigquery_sql"), sql)

(* the back quote character, U+0060 *)
BackQuote == "U+0060"

PreviewPrefix ==
    <<"S", "E", "L", "E", "C", "T", " ", "*", " ", "F", "R", "O", "M", " ", BackQuote>>
PreviewLimit == <<BackQuote, " ", "L", "I", "M", "I", "T", " ">>

(* the f-string of preview_table: SELECT, star, FROM, the back-quoted      *)
(* PROJECT_ID.dataset_id.table_id, LIMIT and the limit in decimal          *)
PreviewSql(dataset_id, table_id, limit) ==
    PreviewPrefix \o Lit[PROJECT_ID] \o <<".">> \o Lit[dataset_id] \o <<".">>
        \o Lit[table_id] \o PreviewLimit \o IntToStr(limit)

(* preview_table without line 309: the limit goes into the statement as   *)
(* it was passed                                                           *)
preview_tableUncapped(dataset_id, table_id, limit) ==
    RunSql([Call("preview_table") EXCEPT !.dataset_id = dataset_id,
                !.table_id = table_id, !.limit = limit],
           PreviewSql(dataset_id, table_id, limit))

(* preview_table(dataset_id, table_id, limit) *)
preview_table(dataset_id, table_id, limit) ==
    LET capped == Min(limit, 100) IN
    RunSql([Call("preview_table") EXCEPT !.dataset_id = dataset_id,
                !.table_id = table_id, !.limit = limit],
           PreviewSql(dataset_id, table_id, capped))

MsgClient == "bigquery.Client raised"
MsgWarehouse == "the warehouse call raised"

(* the frame of the three discovery tools *)
DiscoveryFrame == UNCHANGED <<PROJECT_ID, dataDirExists, fignums, sys_stdout>>

(* list_bigquery_datasets() *)
list_bigquery_datasets ==
    /\ call' = Call("list_bigquery_datasets")
    /\ IF PROJECT_ID = "None"
       THEN /\ result' = Returned("error", MsgNoProject)
            /\ UNCHANGED <<bq_client, state>>
       ELSE \/ /\ bq_client = "None"
               /\ result' = Returned("error", MsgClient)
               /\ UNCHANGED <<bq_client, state>>
            \/ /\ bq_client' = "client"
               /\ result' = Returned("error", MsgWarehouse)
               /\ UNCHANGED state
            \/ /\ bq_client' = "client"
               /\ state' = Put(state, "available_datasets", VList(WarehouseDatasets))
               /\ result' = Returned("success", "")
    /\ DiscoveryFrame

(* list_bigquery_tables(dataset_id) *)
list_bigquery_tables(dataset_id) ==
    /\ call' = [Call("list_bigquery_tables") EXCEPT !.dataset_id = dataset_id]
    /\ IF PROJECT_ID = "None"
       THEN /\ result' = Returned("error", MsgNoProject)
            /\ UNCHANGED <<bq_client, state>>
       ELSE \/ /\ bq_client = "None"
               /\ result' = Returned("error", MsgClient)
               /\ UNCHANGED <<bq_client, state>>
            \/ /\ bq_client' = "client"
               /\ result' = Returned("error", MsgWarehouse)
               /\ UNCHANGED state
            \/ /\ dataset_id \in Range(WarehouseDatasets)
               /\ bq_client' = "client"
               /\ state' = Put(Put(state, "current_dataset", VStr(Lit[dataset_id])),
                               "available_tables", VList(WarehouseTables))
               /\ result' = Returned("success", "")
    /\ DiscoveryFrame

(* schema_key = f"schema_{dataset_id}_{table_id}" *)
SchemaKey(dataset_id, table_id) ==
    Str(Lit["schema_"] \o Lit[dataset_id] \o <<"_">> \o Lit[table_id])

(* get_table_schema(dataset_id, table_id) *)
get_table_schema(dataset_id, table_id) ==
    /\ call' = [Call("get_table_schema") EXCEPT !.dataset_id = dataset_id,
                                                 !.table_id = table_id]
    /\ IF PROJECT_ID = "None"
       THEN /\ result' = Returned("error", MsgNoProject)
            /\ UNCHANGED <<bq_client, state>>
       ELSE \/ /\ bq_client = "None"
               /\ result' = Returned("error", MsgClient)
               /\ UNCHANGED <<bq_client, state>>
            \/ /\ bq_client' = "client"
               /\ result' = Returned("error", MsgWarehouse)
               /\ UNCHANGED state
            \/ /\ dataset_id \in Range(WarehouseDatasets)
               /\ table_id \in Range(WarehouseTables)
               /\ bq_client' = "client"
               /\ state' = Put(Put(state, SchemaKey(dataset_id, table_id),
                                   VList(SchemaColumns)),
                               "current_table_schema",
                               VDict(<<dataset_id, table_id, SchemaColumns>>))
               /\ result' = Returned("success", "")
    /\ DiscoveryFrame

---------------------------------------------------------------------------
(* tools.py *)

(* the frame of the tools that touch neither the warehouse nor the figures *)
FileFrame == UNCHANGED <<PROJECT_ID, dataDirExists, bq_client, fignums, sys_stdout>>

(* the order in which the directory lists its files *)
DirOrder == <<"a.csv", "bad.csv", "df.csv", "notes.txt">>

(* DATA_DIR.glob("*" + ext), ext one of .csv, .xlsx, .xls *)
Glob(ext) == SelectSeq(DirOrder, LAMBDA f : f \in FilesOnDisk /\ Suffix(Lit[f]) = Lit[ext])

(* list_available_data() *)
list_available_data ==
    /\ call' = Call("list_available_data")
    /\ IF ~dataDirExists
       THEN /\ result' = Returned("error", "Data directory not found")
            /\ UNCHANGED state
       ELSE LET files == Glob(".csv") \o Glob(".xlsx") \o Glob(".xls") IN
            /\ state' = Put(state, "available_files", VList(files))
            /\ result' = [Returned("success", "") EXCEPT !.row_count = Len(files)]
    /\ FileFrame

(* dataset_key = f"dataset_{filename.replace('.', '_')}" *)
DatasetKey(filename) == Str(Lit["dataset_"] \o StrReplace(Lit[filename], <<".">>, <<"_">>))

(* the four assignments to tool_context.state in load_data *)
StoreDataset(s, filename, rows) ==
    Put(Put(Put(Put(s, DatasetKey(filename), VRecords(rows)),
                "current_dataset", VRecords(rows)),
            "current_dataset_columns", VList(Columns)),
        "current_dataset_name", VStr(Lit[filename]))

(* load_data with the name of the current dataset recorded before the     *)
(* file is read, so that a failed read leaves the new name behind          *)
load_dataNameFirst(filename) ==
    LET suffix == StrLower(Suffix(Lit[filename]))
        named == Put(state, "current_dataset_name", VStr(Lit[filename]))
    IN
    /\ call' = [Call("load_data") EXCEPT !.filename = filename]
    /\ IF ~(dataDirExists /\ filename \in FilesOnDisk)
       THEN /\ result' = [Returned("error", "File not found") EXCEPT !.hint = TRUE]
            /\ UNCHANGED state
       ELSE IF suffix \notin {Lit[".csv"], Lit[".xlsx"], Lit[".xls"]}
       THEN /\ result' = Returned("error", "Unsupported file type")
            /\ UNCHANGED state
       ELSE IF filename \in Unreadable
       THEN /\ result' = Returned("error", "Failed to load file")
            /\ state' = named
       ELSE /\ state' = StoreDataset(state, filename, FileRows[filename])
            /\ result' = [Returned("success", "") EXCEPT
                             !.row_count = Len(FileRows[filename]),
                             !.dataset_name = Lit[filename]]
    /\ FileFrame

(* load_data(filename) *)
load_data(filename) ==
    LET suffix == StrLower(Suffix(Lit[filename])) IN
    /\ call' = [Call("load_data") EXCEPT !.filename = filename]
    /\ IF ~(dataDirExists /\ filename \in FilesOnDisk)
       THEN /\ result' = [Returned("error", "File not found") EXCEPT !.hint = TRUE]
            /\ UNCHANGED state
       ELSE IF suffix \notin {Lit[".csv"], Lit[".xlsx"], Lit[".xls"]}
       THEN /\ result' = Returned("error", "Unsupported file type")
            /\ UNCHANGED state
       ELSE IF filename \in Unreadable
       THEN /\ result' = Returned("error", "Failed to load file")
            /\ UNCHANGED state
       ELSE /\ state' = StoreDataset(state, filename, FileRows[filename])
            /\ result' = [Returned("success", "") EXCEPT
                             !.row_count = Len(FileRows[filename]),
                             !.dataset_name = Lit[filename]]
    /\ FileFrame

SeqMin(rows) == CHOOSE x \in Range(rows) : \A y \in Range(rows) : x <= y
SeqMax(rows) == CHOOSE x \in Range(rows) : \A y \in Range(rows) : x >= y

(* pd.DataFrame(value) raises ValueError when value is a str *)
FrameRaises(v) == v.kind = "str"

(* get_data_info() *)
get_data_info ==
    /\ call' = Call("get_data_info")
    /\ IF "current_dataset" \notin DOMAIN state
       THEN result' = Returned("error", "No dataset loaded. Use load_data(filename) first.")
       ELSE IF FrameRaises(state["current_dataset"])
       THEN result' = Raised("ValueError")
       ELSE LET rows == state["current_dataset"].val IN
            result' = [Returned("success", "") EXCEPT
                          !.row_count = Len(rows),
                          !.dataset_name =
                              IF "current_dataset_name" \in DOMAIN state
                              THEN state["current_dataset_name"].val
                              ELSE <<"u", "n", "k", "n", "o", "w", "n">>,
                          !.min = IF rows = <<>> THEN 0 ELSE SeqMin(rows),
                          !.max = IF rows = <<>> THEN 0 ELSE SeqMax(rows)]
    /\ UNCHANGED state
    /\ FileFrame

(* pd.DataFrame(records) *)
DataFrame(v) == [kind |-> "DataFrame", val |-> v.val]
Module(name) == [kind |-> "module", val |-> name]

(* the initial local_vars of run_analysis *)
BaseVars ==
    ("pd" :> Module("pandas")) @@ ("np" :> Module("numpy")) @@ ("plt" :> Module("pyplot"))
        @@ ("sns" :> Module("seaborn")) @@ ("DATA_DIR" :> [kind |-> "path", val |-> "DATA_DIR"])

(* key.startswith("dataset_") and isinstance(value, list) *)
IsDatasetKey(s, key) == StartsWith(Lit[key], Lit["dataset_"]) /\ IsList(s[key])

(* key.replace("dataset_", "").replace("_csv", "").replace("_xlsx", "") *)
VarName(key) ==
    Str(StrReplace(StrReplace(StrReplace(Lit[key], Lit["dataset_"], <<>>),
                              Lit["_csv"], <<>>),
                   Lit["_xlsx"], <<>>))

(* the loop over tool_context.state.items(): every dataset key is bound   *)
(* under its derived name (the files of this model derive distinct names)  *)
BindDatasets(s, lv) ==
    LET keys == {k \in DOMAIN s : IsDatasetKey(s, k)}
        names == {VarName(k) : k \in keys}
    IN  [v \in DOMAIN lv \cup names |->
            IF v \in names
            THEN DataFrame(s[CHOOSE k \in keys : VarName(k) = v])
            ELSE lv[v]]

(* local_vars as run_analysis prepares it (lines 139-167), for a state     *)
(* whose current_dataset is a list of records or absent                    *)
Bindings(s) ==
    LET v1 == IF "current_dataset" \in DOMAIN s
              THEN Put(BaseVars, "df", DataFrame(s["current_dataset"]))
              ELSE BaseVars
        v2 == IF "bigquery_query_result" \in DOMAIN s
              THEN LET bq_df == DataFrame(s["bigquery_query_result"])
                       w == Put(v1, "bq_result", bq_df)
                   IN  IF "df" \notin DOMAIN v1 THEN Put(w, "df", bq_df) ELSE w
              ELSE v1
        v3 == IF "last_query_result" \in DOMAIN s
              THEN Put(v2, "query_result", DataFrame(s["last_query_result"]))
              ELSE v2
    IN  BindDatasets(s, v3)

(* the code handed to run_analysis, by what it does when executed: it      *)
(* prints text, opens figures, may close the lowest-numbered open figure,  *)
(* and then ends normally, raises an Exception or raises a BaseException   *)
(* that is no Exception (SystemExit, KeyboardInterrupt)                    *)
Snippets ==
    [prints : {<<>>, <<"hello">>}, newfigs : 0..MaxFigs, closes : {FALSE},
     raises : {"none", "Exception", "BaseException"}]

(* plt.figure() called k times: each new figure takes the next number *)
OpenFigures(figs, k) ==
    LET top == IF figs = {} THEN 0 ELSE CHOOSE n \in figs : \A m \in figs : n >= m
    IN  figs \cup (top + 1 .. top + k)

(* plt.close(n) for the lowest-numbered open figure n *)
CloseLowest(figs) == {n \in figs : \E m \in figs : m < n}

(* the figures open when the snippet has finished *)
FiguresAfter(figs, code) ==
    LET opened == OpenFigures(figs, code.newfigs)
    IN  IF code.closes THEN CloseLowest(opened) ELSE opened

(* captured_output.getvalue(): the StringIO is new in every call *)
CapturedOutput(code) == code.prints

(* except Exception: which exceptions the handler catches *)
Caught(exc) == exc = "Exception"

(* a restore placed at the end of the try block instead of in finally *)
StdoutAfterSuccessOnly(old_stdout, captured_output, outcome) ==
    IF outcome = "success" THEN old_stdout ELSE captured_output

(* finally: sys.stdout = old_stdout, whatever the try block did *)
StdoutAfter(old_stdout, captured_output, outcome) == old_stdout

(* fig.savefig(output_path) raises when DATA_DIR does not exist *)
SavefigRaises == ~dataDirExists

(* plt.get_fignums(): the numbers of the open figures in ascending order *)
get_fignums(figs) ==
    [i \in 1..Cardinality(figs) |->
        CHOOSE n \in figs : Cardinality({m \in figs : m < n}) = i - 1]

(* an output path numbered by the figure's number instead of its position *)
OutputPathByFigure(i, num) ==
    [dir |-> "DATA_DIR",
     name |-> Lit["analysis_output_"] \o IntToStr(num) \o Lit[".png"]]

(* output_path = DATA_DIR / f"analysis_output_{i+1}.png", for the figure   *)
(* num at position i (counted from 1) of fig_nums                          *)
OutputPath(i, num) ==
    [dir |-> "DATA_DIR",
     name |-> Lit["analysis_output_"] \o IntToStr(i) \o Lit[".png"]]

(* the loop over enumerate(fig_nums): which figure is saved to which path *)
SaveFigures(figs) ==
    LET fig_nums == get_fignums(figs)
    IN  [i \in 1..Len(fig_nums) |->
            [fig |-> fig_nums[i], path |-> OutputPath(i, fig_nums[i])]]

(* generated_files: the paths in the order they were saved *)
GeneratedFiles(figs) == [i \in 1..Cardinality(figs) |-> SaveFigures(figs)[i].path]

(* run_analysis(code) *)
run_analysis(code) ==
    /\ IF "current_dataset" \in DOMAIN state /\ FrameRaises(state["current_dataset"])
       THEN \* line 149 raises before sys.stdout is touched and before exec
            /\ result' = Raised("ValueError")
            /\ call' = [Call("run_analysis") EXCEPT !.code = code]
            /\ UNCHANGED <<fignums, sys_stdout>>
       ELSE LET local_vars == Bindings(state)
                old_stdout == sys_stdout
                captured_output == "StringIO"
                figs == FiguresAfter(fignums, code)
                raised == IF code.raises # "none" THEN code.raises
                          ELSE IF figs # {} /\ SavefigRaises THEN "Exception"
                          ELSE "none"
                outcome == IF raised = "none" THEN "success"
                           ELSE IF Caught(raised) THEN "error" ELSE "raised"
            IN  /\ call' = [Call("run_analysis") EXCEPT
                               !.code = code, !.ran = TRUE, !.local_vars = local_vars,
                               !.figs = figs,
                               !.saved = IF outcome = "success" THEN SaveFigures(figs)
                                         ELSE <<>>]
                /\ fignums' = IF outcome = "success" THEN {} ELSE figs
                /\ sys_stdout' = StdoutAfter(old_stdout, captured_output, outcome)
                /\ result' =
                     IF outcome = "success"
                     THEN [Returned("success", "") EXCEPT
                              !.output = CapturedOutput(code),
                              !.generated_files = GeneratedFiles(figs)]
                     ELSE IF outcome = "error"
                     THEN [Returned("error", raised) EXCEPT !.output = CapturedOutput(code)]
                     ELSE Raised(raised)
    /\ UNCHANGED <<PROJECT_ID, dataDirExists, bq_client, state>>

---------------------------------------------------------------------------
(* The session *)

Streams == {"tty"}

SqlDelete == <<"D", "E", "L", "E", "T", "E", " ", "F", "R", "O", "M", " ", "f", "o", "o">>
SqlCreatedAt == <<"s", "e", "l", "e", "c", "t", " ", "c", "r", "e", "a", "t", "e", "d", "_", "a", "t", " ", "f", "r", "o", "m", " ", "t">>
SqlCreateTable == <<"S", "E", "L", "E", "C", "T", " ", "1", ";", " ", "C", "R", "E", "A", "T", "E", " ", "T", "A", "B", "L", "E", " ", "x">>
SqlExplain == <<"e", "x", "p", "l", "a", "i", "n", " ", "s", "e", "l", "e", "c", "t", " ", "1">>

(* the statements the session hands to run_bigquery_sql *)
SqlSamples == {SqlDelete, SqlCreatedAt, SqlCreateTable, SqlExplain}

(* the limits the session hands to preview_table *)
Limits == {10, 500}

Init ==
    /\ PROJECT_ID \in {"None", "proj"}
    /\ dataDirExists \in BOOLEAN
    /\ bq_client = "None"
    /\ state = <<>>
    /\ fignums = {}
    /\ sys_stdout \in Streams
    /\ result = Returned("none", "")
    /\ call = NoCall

Next ==
    \/ list_available_data
    \/ \E filename \in Filenames : load_data(filename)
    \/ \E code \in Snippets :
           Cardinality(fignums) + code.newfigs <= MaxFigs /\ run_analysis(code)
    \/ get_data_info
    \/ list_bigquery_datasets
    \/ \E dataset_id \in DatasetIds : list_bigquery_tables(dataset_id)
    \/ \E dataset_id \in DatasetIds, table_id \in TableIds :
           get_table_schema(dataset_id, table_id)
    \/ \E sql \in SqlSamples : run_bigquery_sql(sql)
    \/ \E dataset_id \in DatasetIds, table_id \in TableIds, limit \in Limits :
           preview_table(dataset_id, table_id, limit)

Spec == Init /\ [][Next]_vars

---------------------------------------------------------------------------
(* The validation of run_bigquery_sql as a function of the statement: the  *)
(* first statement of a session, drawn from every concatenation of at most *)
(* MaxPieces pieces                                                        *)

Pieces ==
    { <<"s", "e", "l", "e", "c", "t">>, <<"W", "i", "t", "h">>, <<" ">>,
      <<"C", "r", "e", "a", "t", "e">>, <<"d", "r", "o", "p">>, <<"d">>, <<"_">>, <<"x">> }

RECURSIVE Concats(_)
Concats(n) ==
    IF n = 0 THEN {<<>>}
    ELSE LET shorter == Concats(n - 1)
         IN  shorter \cup {p \o q : p \in Pieces, q \in shorter}

SqlWide == Concats(MaxPieces) \cup SqlSamples

NextSql == call.op = "none" /\ \E sql \in SqlWide : run_bigquery_sql(sql)

SpecSql == Init /\ [][NextSql]_vars

---------------------------------------------------------------------------
(* preview_table as a function of its limit: the first call of a session,  *)
(* with every limit from below zero to above the cap, and the 500 of the   *)
(* documentation                                                           *)

MaxLimit == 102

LimitsWide == (-3 .. MaxLimit) \cup {500}

NextPreview ==
    /\ call.op = "none"
    /\ \E dataset_id \in DatasetIds, table_id \in TableIds, limit \in LimitsWide :
           preview_table(dataset_id, table_id, limit)

SpecPreview == Init /\ [][NextPreview]_vars

---------------------------------------------------------------------------
(* The bindings of run_analysis as a function of what the session has      *)
(* loaded and queried: loads of a.csv and of df.csv, whose dataset key     *)
(* derives the variable name df, queries, and snippets that do nothing     *)

FilenamesWide == {"a.csv", "df.csv"}

NextBind ==
    \/ \E filename \in FilenamesWide : load_data(filename)
    \/ run_bigquery_sql(SqlCreatedAt)
    \/ run_analysis(NoSnippet)

SpecBind == Init /\ [][NextBind]_vars

---------------------------------------------------------------------------
(* The figures of run_analysis: snippets that open up to MaxFigNum figures *)
(* and may close one, with figures left open by calls that failed          *)

MaxFigNum == 3

SnippetsFigs ==
    [prints : {<<>>}, newfigs : 0..MaxFigNum, closes : BOOLEAN,
     raises : {"none", "Exception"}]

NextFigs ==
    \E code \in SnippetsFigs :
        /\ OpenFigures(fignums, code.newfigs) \subseteq 1..MaxFigNum
        /\ run_analysis(code)

SpecFigs == Init /\ [][NextFigs]_vars

---------------------------------------------------------------------------
(* Properties *)

SqlOps == {"run_bigquery_sql", "preview_table"}

(* the words of s: its maximal runs of word characters *)
Words(s) ==
    LET starts == {i \in DOMAIN s : IsWordChar(s[i]) /\ (i = 1 \/ ~IsWordChar(s[i - 1]))}
        ends == {j \in DOMAIN s : IsWordChar(s[j]) /\ (j = Len(s) \/ ~IsWordChar(s[j + 1]))}
        EndOf(i) == CHOOSE j \in ends : j >= i /\ \A k \in ends : k >= i => j <= k
    IN  {SubSeq(s, i, EndOf(i)) : i \in starts}

(* the forbidden keywords that are words of the statement, in any case *)
ForbiddenWords(sql) == Range(dangerous_keywords) \cap Words(StrUpper(sql))

(* the forbidden keywords whose letters occur somewhere in the statement *)
ForbiddenLetters(sql) ==
    {kw \in Range(dangerous_keywords) : ReSearchSubstring(StrUpper(sql), kw)}

StartsWithSelectOrWith(sql) ==
    StartsWith(StrUpper(StrStrip(sql)), KwSelect) \/ StartsWith(StrUpper(StrStrip(sql)), KwWith)

(* what the next run_analysis binds df to *)
DfBinding(s) ==
    IF "current_dataset" \in DOMAIN s /\ FrameRaises(s["current_dataset"])
    THEN [kind |-> "ValueError", val |-> <<>>]
    ELSE IF "df" \in DOMAIN Bindings(s) THEN Bindings(s)["df"]
    ELSE [kind |-> "unbound", val |-> <<>>]

(* C1: every tool call returns a mapping whose status is success or error; *)
(* no call raises, whatever state the earlier calls left.  Stated for the  *)
(* calls that C2 does not decide: a run_analysis whose snippet raises is   *)
(* left to C2                                                              *)
C1_EveryCallReturns ==
    (call.op # "none" /\ call.code.raises = "none")
        => result.status \in {"success", "error"}

(* C2: whenever the executed snippet raises, run_analysis returns          *)
(* status=error with the error's message; nothing propagates               *)
C2_SnippetErrorCaught ==
    (call.op = "run_analysis" /\ call.ran /\ call.code.raises # "none")
        => (result.status = "error" /\ result.message = call.code.raises)

(* C3: a snippet that only prints and opens no figure gets                 *)
(* generated_files = [] and output equal to what it printed, whatever the  *)
(* earlier run_analysis calls did                                          *)
C3_PrintOnlySnippet ==
    (call.op = "run_analysis" /\ call.ran /\ call.code.newfigs = 0
        /\ call.code.raises = "none")
        => (result.status = "success" /\ result.generated_files = <<>>
            /\ result.output = call.code.prints)

(* C4: a run_analysis call leaves sys.stdout the stream it found, on the   *)
(* success path, the error path and when an exception leaves the call; the *)
(* capture buffer never stays installed                                    *)
C4_StdoutRestored ==
    [][call'.op = "run_analysis" => (sys_stdout' = sys_stdout /\ sys_stdout' \in Streams)]_vars

C4_Witness ==
    call.op = "run_analysis" /\ call.ran /\ result.status = "error"
        /\ call.code.prints # <<>> /\ sys_stdout \in Streams

(* C5: a snippet that prints and then raises gets status=error and the     *)
(* printed text, and only that, as output                                  *)
C5_PartialOutput ==
    (call.op = "run_analysis" /\ call.ran /\ call.code.prints # <<>>
        /\ call.code.raises # "none")
        => (result.status = "error" /\ result.output = call.code.prints)

(* C6: after a successful run_bigquery_sql the query result is the current *)
(* dataset: the next run_analysis binds df to it and get_data_info reads   *)
(* it                                                                      *)
C6_QueryBecomesCurrent ==
    (call.op = "run_bigquery_sql" /\ result.status = "success")
        => /\ DfBinding(state) = DataFrame(state["bigquery_query_result"])
           /\ "current_dataset" \in DOMAIN state
           /\ state["current_dataset"] = state["bigquery_query_result"]

(* C7 as stated: with the project configured, a statement holding a        *)
(* forbidden keyword as a word is refused with a message naming a          *)
(* forbidden keyword of the statement, and no query is issued              *)
C7_KeywordAlwaysNamed ==
    (call.op = "run_bigquery_sql" /\ PROJECT_ID # "None"
        /\ ForbiddenWords(call.sql) # {})
        => (result.status = "error" /\ ~call.queried
            /\ result.keyword \in ForbiddenWords(call.sql))

(* C7 as amended: such a statement is refused and no query is issued; the  *)
(* message names a forbidden keyword of the statement when the trimmed,    *)
(* upper-cased statement starts with SELECT or WITH, and is the            *)
(* only-SELECT message, naming no keyword, when it does not                *)
C7_RefusedKeywordNamedAfterSelect ==
    (call.op = "run_bigquery_sql" /\ PROJECT_ID # "None"
        /\ ForbiddenWords(call.sql) # {})
        => /\ result.status = "error"
           /\ ~call.queried
           /\ IF StartsWithSelectOrWith(call.sql)
              THEN result.message = MsgForbidden
                   /\ result.keyword \in ForbiddenWords(call.sql)
              ELSE result.message = MsgOnlySelect /\ result.keyword = <<>>

C7_Witness ==
    /\ call.op = "run_bigquery_sql"
    /\ call.sql = SqlDelete
    /\ result.status = "error"
    /\ result.message = MsgOnlySelect

(* C8: in a statement that starts with SELECT or WITH, forbidden letters   *)
(* inside a longer word do not get the statement refused by the            *)
(* validation, and a forbidden keyword that is a word of its own does      *)
C8_WholeWordsOnly ==
    (call.op = "run_bigquery_sql" /\ PROJECT_ID # "None"
        /\ StartsWithSelectOrWith(call.sql))
        => /\ ForbiddenWords(call.sql) = {}
                => result.message \notin {MsgForbidden, MsgOnlySelect}
           /\ ForbiddenWords(call.sql) # {}
                => (result.status = "error" /\ result.message = MsgForbidden)

C8_Witness ==
    /\ call.op = "run_bigquery_sql"
    /\ ForbiddenLetters(call.sql) # {}
    /\ ForbiddenWords(call.sql) = {}
    /\ result.status = "success"

(* C9: a query reaches the warehouse only when the project is configured,  *)
(* the trimmed upper-cased statement starts with SELECT or WITH and no     *)
(* forbidden keyword is a word of it; otherwise the call returns an error, *)
(* issues no query and leaves the session state as it was                  *)
QueryAllowed(sql) ==
    PROJECT_ID # "None" /\ StartsWithSelectOrWith(sql) /\ ForbiddenWords(sql) = {}

C9_QueryOnlyWhenValid ==
    [][call'.op \in SqlOps =>
          \/ QueryAllowed(call'.sql)
          \/ (result'.status = "error" /\ ~call'.queried /\ state' = state)]_vars

C9_Witness ==
    /\ call.op \in SqlOps
    /\ PROJECT_ID # "None"
    /\ ~QueryAllowed(call.sql)
    /\ result.status = "error"
    /\ "current_dataset" \in DOMAIN state

(* C10: a successful query returns and stores the first                    *)
(* min(n, MAX_RESULTS) of the n rows the warehouse produced, and sets      *)
(* truncated exactly when n > MAX_RESULTS                                  *)
C10_RowsCapped ==
    (call.op \in SqlOps /\ result.status = "success")
        => LET kept == SubSeq(WarehouseRows(call.produced), 1,
                              Min(call.produced, MAX_RESULTS))
           IN  /\ result.row_count = Min(call.produced, MAX_RESULTS)
               /\ state["bigquery_query_result"] = VRecords(kept)
               /\ state["last_query_result"] = VRecords(kept)
               /\ result.truncated = (call.produced > MAX_RESULTS)

C10_Witness ==
    /\ call.op = "run_bigquery_sql"
    /\ result.status = "success"
    /\ call.produced > MAX_RESULTS
    /\ result.truncated

(* C11: every error return of load_data (file not found, unsupported       *)
(* extension, failed read) leaves the whole session state as it was, the   *)
(* current dataset included; the return for a file that does not exist     *)
(* carries the hint to call list_available_data, and a load that returns   *)
(* success has found the file, with a supported extension, and read it     *)
C11_FailedLoadChangesNothing ==
    [][call'.op = "load_data" =>
          /\ result'.status \in {"success", "error"}
          /\ result'.status = "error" => state' = state
          /\ ~(dataDirExists /\ call'.filename \in FilesOnDisk)
                => (result'.status = "error" /\ result'.hint
                      /\ result'.message = "File not found")
          /\ call'.filename \in {"notes.txt", "bad.csv"} => result'.status = "error"]_vars

C11_Witness ==
    /\ call.op = "load_data"
    /\ call.filename = "nope.csv"
    /\ result.status = "error"
    /\ result.hint
    /\ "current_dataset" \in DOMAIN state
    /\ state["current_dataset"] = VRecords(FileRows["a.csv"])


(* the value of a decimal numeral, read digit by digit *)
DigitValue(c) == (CHOOSE i \in 1..10 : Digits[i] = c) - 1

RECURSIVE NumeralValue(_)
NumeralValue(cs) ==
    IF cs = <<>> THEN 0
    ELSE IF Head(cs) = "-" THEN 0 - NumeralValue(Tail(cs))
    ELSE 10 * NumeralValue(SubSeq(cs, 1, Len(cs) - 1)) + DigitValue(cs[Len(cs)])

(* a decimal numeral the way str() writes an integer *)
IsNumeral(cs) ==
    LET digits == IF cs # <<>> /\ Head(cs) = "-" THEN Tail(cs) ELSE cs
    IN  /\ digits # <<>>
        /\ \A i \in 1..Len(digits) : digits[i] \in Range(Digits)
        /\ Len(digits) > 1 => digits[1] # "0"
        /\ digits = <<"0">> => cs = digits

(* the text after the last blank of a statement *)
LastToken(sql) ==
    LET blanks == {i \in 1..Len(sql) : sql[i] = " "}
        last == CHOOSE i \in blanks : \A j \in blanks : j <= i
    IN  SubSeq(sql, last + 1, Len(sql))

(* C12: for every integer limit, the statement preview_table synthesizes   *)
(* is SELECT * FROM the back-quoted project.dataset.table followed by      *)
(* LIMIT and the decimal numeral of min(limit, 100), which never exceeds   *)
(* 100; that statement is the one handed to run_bigquery_sql, whose        *)
(* validation does not refuse it when the project is configured            *)
C12_PreviewLimitCapped ==
    call.op = "preview_table"
        => LET n == NumeralValue(LastToken(call.sql))
               target == PreviewPrefix \o Lit[PROJECT_ID] \o <<".">>
                            \o Lit[call.dataset_id] \o <<".">> \o Lit[call.table_id]
           IN  /\ n = (IF call.limit <= 100 THEN call.limit ELSE 100)
               /\ n <= 100
               /\ IsNumeral(LastToken(call.sql))
               /\ call.sql = target \o PreviewLimit \o LastToken(call.sql)
               /\ StartsWith(call.sql, <<"S", "E", "L", "E", "C", "T", " ", "*", " ">>)
               /\ PROJECT_ID = "None"
                     => (result.status = "error" /\ result.message = MsgNoProject)
               /\ PROJECT_ID # "None"
                     => result.message \notin {MsgNoProject, MsgOnlySelect, MsgForbidden}

C12_Witness ==
    /\ call.op = "preview_table"
    /\ call.limit = 500
    /\ NumeralValue(LastToken(call.sql)) = 100
    /\ call.queried
    /\ result.status = "success"


(* C13: get_data_info called in a session whose last successful load was   *)
(* load_data(f), and in which no query has succeeded, returns success      *)
(* with the number of rows of f, the name f, and as min and max the        *)
(* smallest and the largest value of the numeric column                    *)
C13_InfoRoundTrip ==
    (call.op = "get_data_info" /\ "current_dataset_name" \in DOMAIN state
        /\ "last_query" \notin DOMAIN state)
        => LET f == Str(state["current_dataset_name"].val)
               rows == FileRows[f]
           IN  /\ result.status = "success"
               /\ result.row_count = Len(rows)
               /\ result.dataset_name = Lit[f]
               /\ result.min \in Range(rows) /\ \A y \in Range(rows) : result.min <= y
               /\ result.max \in Range(rows) /\ \A y \in Range(rows) : result.max >= y


(* C14: when run_analysis has prepared its bindings, df is the current     *)
(* dataset if the session state holds one and the warehouse query result   *)
(* if it holds none, bq_result and query_result are the warehouse result   *)
(* and the last query result whenever the state holds them, and pd, np,    *)
(* plt, sns and DATA_DIR are the libraries and the data directory,         *)
(* whatever dataset keys the state holds                                   *)
C14_BindingsKept ==
    (call.op = "run_analysis" /\ call.ran)
        => LET lv == call.local_vars IN
           /\ "current_dataset" \in DOMAIN state
                 => ("df" \in DOMAIN lv /\ lv["df"] = DataFrame(state["current_dataset"]))
           /\ ("current_dataset" \notin DOMAIN state
                  /\ "bigquery_query_result" \in DOMAIN state)
                 => ("df" \in DOMAIN lv
                       /\ lv["df"] = DataFrame(state["bigquery_query_result"]))
           /\ "bigquery_query_result" \in DOMAIN state
                 => ("bq_result" \in DOMAIN lv
                       /\ lv["bq_result"] = DataFrame(state["bigquery_query_result"]))
           /\ "last_query_result" \in DOMAIN state
                 => ("query_result" \in DOMAIN lv
                       /\ lv["query_result"] = DataFrame(state["last_query_result"]))
           /\ \A v \in DOMAIN BaseVars : v \in DOMAIN lv /\ lv[v] = BaseVars[v]


(* the numeral between analysis_output_ and .png in a file name *)
OutputNumber(name) ==
    SubSeq(name, Len(Lit["analysis_output_"]) + 1, Len(name) - Len(Lit[".png"]))

(* C15: a successful run_analysis with k figures open when the snippet     *)
(* has finished returns as generated_files exactly k paths in the data     *)
(* directory, the i-th named analysis_output_i.png, pairwise distinct;     *)
(* the figures are saved in ascending order of their numbers, the i-th of  *)
(* them to the i-th path, so no two figures of the call are saved to the   *)
(* same file                                                               *)
C15_OneFilePerFigure ==
    (call.op = "run_analysis" /\ result.status = "success")
        => LET k == Cardinality(call.figs)
               g == result.generated_files
               saved == call.saved
           IN  /\ Len(g) = k
               /\ \A i \in 1..k :
                     /\ g[i].dir = "DATA_DIR"
                     /\ StartsWith(g[i].name, Lit["analysis_output_"])
                     /\ Suffix(g[i].name) = Lit[".png"]
                     /\ IsNumeral(OutputNumber(g[i].name))
                     /\ NumeralValue(OutputNumber(g[i].name)) = i
               /\ \A i, j \in 1..k : i # j => g[i] # g[j]
               /\ Len(saved) = k
               /\ {saved[i].fig : i \in 1..k} = call.figs
               /\ \A i, j \in 1..k : i < j => saved[i].fig < saved[j].fig
               /\ \A i \in 1..k : saved[i].path = g[i]

C15_Witness ==
    /\ call.op = "run_analysis"
    /\ result.status = "success"
    /\ Cardinality(call.figs) = 2
    /\ 1 \notin call.figs
    /\ Len(result.generated_files) = 2


DiscoveryOps == {"list_bigquery_datasets", "list_bigquery_tables", "get_table_schema"}

(* the keys under which load_data and run_bigquery_sql keep their data *)
DataKeys ==
    {"current_dataset", "current_dataset_columns", "current_dataset_name",
     "last_query", "last_query_result", "last_query_columns", "bigquery_query_result"}

(* C16: every call of list_bigquery_datasets, list_bigquery_tables or      *)
(* get_table_schema, successful or failed, leaves the current dataset,     *)
(* its columns and name and the stored query results as they were, so      *)
(* that a current dataset, when present, is the list of records of the     *)
(* file named by current_dataset_name                                      *)
C16_DiscoveryKeepsData ==
    [][call'.op \in DiscoveryOps =>
          /\ \A k \in DataKeys :
                /\ (k \in DOMAIN state') = (k \in DOMAIN state)
                /\ k \in DOMAIN state => state'[k] = state[k]
          /\ "current_dataset" \in DOMAIN state' =>
                /\ "current_dataset_name" \in DOMAIN state'
                /\ state'["current_dataset"] =
                      VRecords(FileRows[Str(state'["current_dataset_name"].val)])]_vars


===========================================================================
